---- MODULE Spec2Model ----
(***************************************************************************)
(* Model of the tilting platform of src/main.rs: a grid of rolling and     *)
(* fixed stones that is tilted in four directions, spun in cycles          *)
(* (north, west, south, east) with a loop-detecting shortcut, and weighed. *)
(***************************************************************************)
EXTENDS Integers, Sequences, FiniteSets, TLC

(***************************************************************************)
(* Bounds of the model.                                                    *)
(***************************************************************************)
\* largest number of rolling stones on a generated grid
MaxRound == 3
\* largest number of fixed stones on a generated grid
MaxSquare == 1
\* largest `times` handed to cycle besides the values the program itself uses
MaxTimes == 4
\* largest sum of the `times` arguments of a sequence of rotate_matrix calls
MaxTurns == 5

\* the number of cycles main asks for
MainTimes == 1000000000
\* the number of cycles the tests ask for
TestTimes == 100

(***************************************************************************)
(* enum TPSpace, enum Direction                                            *)
(***************************************************************************)
Empty == "Empty"
RoundStone == "RoundStone"
SquareStone == "SquareStone"
TPSpace == {Empty, RoundStone, SquareStone}

North == "North"
West == "West"
East == "East"
South == "South"
Direction == {North, West, East, South}

(***************************************************************************)
(* TiltingPlatform::parse: one TPSpace per character, rows and columns in  *)
(* order. A line is modelled as the sequence of its characters.            *)
(***************************************************************************)
parse_char(c) ==
    CASE c = "." -> Empty
      [] c = "#" -> SquareStone
      [] c = "O" -> RoundStone

parse(lines) ==
    [r \in 1..Len(lines) |-> [c \in 1..Len(lines[r]) |-> parse_char(lines[r][c])]]

\* vec![x; n]
Repeat(x, n) == [k \in 1..n |-> x]

\* row.iter().filter(|s| **s == TPSpace::RoundStone).count()
CountIn(row, space) == Cardinality({c \in 1..Len(row) : row[c] = space})

RECURSIVE SumSeq(_)
SumSeq(s) == IF Len(s) = 0 THEN 0 ELSE s[1] + SumSeq(Tail(s))

(***************************************************************************)
(* TiltingPlatform::get_load: the rows are walked bottom-up (rev), each    *)
(* numbered from 0 (enumerate), and weigh count * (factor + 1).            *)
(***************************************************************************)
\* get_load without the .rev() of line 58: the rows are numbered from the top
get_load_from_top(matrix) ==
    SumSeq([f \in 1..Len(matrix) |-> CountIn(matrix[f], RoundStone) * ((f - 1) + 1)])

get_load(matrix) ==
    LET n == Len(matrix)
        rev == [f \in 1..n |-> matrix[n + 1 - f]]
    IN  SumSeq([f \in 1..n |-> CountIn(rev[f], RoundStone) * ((f - 1) + 1)])

(***************************************************************************)
(* TiltingPlatform::rotate_matrix: `times` quarter turns clockwise.        *)
(***************************************************************************)
rotate_once(matrix) ==
    [i \in 1..Len(matrix[1]) |->
        [j \in 1..Len(matrix) |-> matrix[Len(matrix) + 1 - j][i]]]

rotate_twice(matrix) ==
    [r \in 1..Len(matrix) |->
        [c \in 1..Len(matrix[r]) |-> matrix[Len(matrix) + 1 - r][Len(matrix[r]) + 1 - c]]]

\* a quarter turn that forgets the .rev() of line 67: a transposition
rotate_matrix_transpose(matrix, times) ==
    LET once(m) == [i \in 1..Len(m[1]) |-> [j \in 1..Len(m) |-> m[j][i]]]
    IN  CASE times % 4 = 0 -> matrix
          [] times % 4 = 1 -> once(matrix)
          [] times % 4 = 2 -> rotate_twice(matrix)
          [] times % 4 = 3 -> rotate_twice(once(matrix))

rotate_matrix(matrix, times) ==
    CASE times % 4 = 0 -> matrix
      [] times % 4 = 1 -> rotate_once(matrix)
      [] times % 4 = 2 -> rotate_twice(matrix)
      [] times % 4 = 3 -> rotate_twice(rotate_once(matrix))

(***************************************************************************)
(* TiltingPlatform::tilt_row: the stones of a row roll to its start.       *)
(***************************************************************************)
RECURSIVE tilt_row_loop(_, _, _, _, _)
tilt_row_loop(row, k, rounds, empties, new_row) ==
    IF k > Len(row)
    THEN new_row \o Repeat(RoundStone, rounds) \o Repeat(Empty, empties)
    ELSE CASE row[k] = Empty -> tilt_row_loop(row, k + 1, rounds, empties + 1, new_row)
           [] row[k] = RoundStone -> tilt_row_loop(row, k + 1, rounds + 1, empties, new_row)
           [] row[k] = SquareStone ->
                tilt_row_loop(row, k + 1, 0, 0,
                    Append(new_row \o Repeat(RoundStone, rounds) \o Repeat(Empty, empties),
                           SquareStone))

\* tilt_row whose line 93 emits Empty for the rolling stones after the last fixed stone
RECURSIVE tilt_row_no_flush_loop(_, _, _, _, _)
tilt_row_no_flush_loop(row, k, rounds, empties, new_row) ==
    IF k > Len(row)
    THEN new_row \o Repeat(Empty, rounds + empties)
    ELSE CASE row[k] = Empty -> tilt_row_no_flush_loop(row, k + 1, rounds, empties + 1, new_row)
           [] row[k] = RoundStone -> tilt_row_no_flush_loop(row, k + 1, rounds + 1, empties, new_row)
           [] row[k] = SquareStone ->
                tilt_row_no_flush_loop(row, k + 1, 0, 0,
                    Append(new_row \o Repeat(RoundStone, rounds) \o Repeat(Empty, empties),
                           SquareStone))

tilt_row_no_flush(row) == tilt_row_no_flush_loop(row, 1, 0, 0, <<>>)

tilt_row(row) == tilt_row_loop(row, 1, 0, 0, <<>>)

(***************************************************************************)
(* TiltingPlatform::tilt: turn the platform so that the stones roll to the *)
(* start of every row, tilt the rows, turn it back.                        *)
(***************************************************************************)
\* the match of lines 100-105 with East and West exchanged
rotate_count_east_west_swapped(direction) ==
    CASE direction = West -> 2
      [] direction = South -> 1
      [] direction = East -> 0
      [] direction = North -> 3

rotate_count(direction) ==
    CASE direction = West -> 0
      [] direction = South -> 1
      [] direction = East -> 2
      [] direction = North -> 3

\* tilt that turns the platform back by `rotate` instead of 4 - rotate
tilt_turned_back_by_rotate(matrix, direction) ==
    LET rotate == rotate_count(direction)
    IN  CHOOSE back \in
            {rotate_matrix(tilted, rotate) :
                tilted \in {[r \in 1..Len(turned) |-> tilt_row(turned[r])] :
                    turned \in {rotate_matrix(self, rotate) : self \in {matrix}}}} :
            back = back

\* let mut matrix = rotate_matrix(..); matrix = ..tilt_row..; matrix = rotate_matrix(..):
\* each assignment binds the value the next one reads
tilt(matrix, direction) ==
    LET rotate == rotate_count(direction)
    IN  CHOOSE back \in
            {rotate_matrix(tilted, 4 - rotate) :
                tilted \in {[r \in 1..Len(turned) |-> tilt_row(turned[r])] :
                    turned \in {rotate_matrix(self, rotate) : self \in {matrix}}}} :
            back = back

\* for direction in [North, West, South, East] { out = out.tilt(&direction) }
spin_cycle(matrix) == tilt(tilt(tilt(tilt(matrix, North), West), South), East)

(***************************************************************************)
(* TiltingPlatform::cycle_brute_force                                      *)
(***************************************************************************)
RECURSIVE cycle_brute_force(_, _)
cycle_brute_force(matrix, n) ==
    IF n = 0 THEN matrix ELSE spin_cycle(cycle_brute_force(matrix, n - 1))

(***************************************************************************)
(* The platforms the model starts from: every rectangular grid of one of   *)
(* the shapes below with at most MaxRound rolling and MaxSquare fixed       *)
(* stones, the platform of the tests (get_tp5) and the example of the      *)
(* specification. cycle is called with 0..MaxTimes and main's 1000000000   *)
(* on all of them, and with the tests' 100 on the last two.                *)
(***************************************************************************)
Shapes == {<<1, 1>>, <<1, 2>>, <<2, 1>>, <<2, 3>>, <<3, 2>>, <<3, 3>>}

CountAll(matrix, space) ==
    Cardinality({p \in (1..Len(matrix)) \X (1..Len(matrix[1])) : matrix[p[1]][p[2]] = space})

GridsOf(shape) ==
    {g \in [1..shape[1] -> [1..shape[2] -> TPSpace]] :
        /\ CountAll(g, RoundStone) <= MaxRound
        /\ CountAll(g, SquareStone) <= MaxSquare}

Grids == UNION {GridsOf(shape) : shape \in Shapes}

get_tp5 ==
    parse(<< <<"O", ".", ".", "O", ".", ".", ".">>,
             <<"#", "#", "#", "#", "#", "#", "#">>,
             <<".", "O", ".", ".", ".", ".", ".">>,
             <<".", ".", ".", ".", "O", ".", ".">>,
             <<".", ".", ".", ".", "O", "#", ".">>,
             <<".", ".", "O", ".", ".", ".", "O">> >>)

Example ==
    parse(<< <<"O", ".", ".", ".", ".", "#", ".", ".", ".", ".">>,
             <<"O", ".", "O", "O", "#", ".", ".", ".", ".", "#">>,
             <<".", ".", ".", ".", ".", "#", "#", ".", ".", ".">>,
             <<"O", "O", ".", "#", "O", ".", ".", ".", ".", "O">>,
             <<".", "O", ".", ".", ".", ".", ".", "O", "#", ".">>,
             <<"O", ".", "#", ".", ".", "O", ".", "#", ".", "#">>,
             <<".", ".", "O", ".", ".", "#", "O", ".", ".", "O">>,
             <<".", ".", ".", ".", ".", ".", ".", "O", ".", ".">>,
             <<"#", ".", ".", ".", ".", "#", "#", "#", ".", ".">>,
             <<"#", "O", "O", ".", ".", "#", ".", ".", ".", ".">> >>)

Fixtures == {get_tp5, Example}

Times == (0..MaxTimes) \cup {TestTimes, MainTimes}

(***************************************************************************)
(* State.                                                                  *)
(*   matrix      self.matrix, the platform at hand                         *)
(*   times       the argument of cycle                                     *)
(*   pc          where the run stands: "loop" (head of cycle's for loop),  *)
(*               "returned", "panicked", "printed" (main has printed the   *)
(*               load); "ops" while single tilts and rotations are applied *)
(*   iteration, out, states   the locals of cycle                          *)
(*   found       the Option of states.iter().position(..): <<>> or <<i>>   *)
(*   index       the index computed on a match, <<>> before                *)
(*   result      the platform cycle returned, <<>> before                  *)
(*   simulated   the number of spin cycles cycle has run                   *)
(*   total_load  what main prints, <<>> before                             *)
(*   prev, last_op   the platform before the last tilt or rotation, and    *)
(*               that operation                                            *)
(*   base, turns the platform before the current run of rotations and the  *)
(*               sum of their `times` arguments                            *)
(***************************************************************************)
VARIABLES matrix, times, pc, iteration, out, states, found, index, result,
          simulated, total_load, prev, last_op, base, turns

vars == <<matrix, times, pc, iteration, out, states, found, index, result,
          simulated, total_load, prev, last_op, base, turns>>

cycle_vars == <<times, iteration, states, found, index, result, simulated, total_load>>
ops_vars == <<prev, last_op, base, turns>>

\* states.iter().position(|s| *s == out): the first index (from 0) holding `platform`
\* position over states.iter().skip(1): a match with the first state is missed
position_skips_first(history, platform) ==
    LET hits == {k \in 2..Len(history) : history[k] = platform}
    IN  IF hits = {} THEN <<>>
        ELSE <<(CHOOSE k \in hits : \A h \in hits : k <= h) - 1>>

position(history, platform) ==
    LET hits == {k \in 1..Len(history) : history[k] = platform}
    IN  IF hits = {} THEN <<>>
        ELSE <<(CHOOSE k \in hits : \A h \in hits : k <= h) - 1>>

\* states.len() - i, the divisor of line 152
\* the divisor as the distance between the two equal states less one
period_without_new_state(len, i) == len - i - 1

period(len, i) == len - i

\* i + (times - iteration) % (states.len() - i) - 1, in the integers
\* the index of line 152 without its - 1
return_index_no_decrement(i, n, it, len) == i + ((n - it) % period(len, i))

return_index(i, n, it, len) == (i + ((n - it) % period(len, i))) - 1

(***************************************************************************)
(* main: load the platform and call cycle on it.                           *)
(***************************************************************************)
Init ==
    /\ matrix \in Grids \cup Fixtures
    /\ times \in (IF matrix \in Fixtures THEN Times ELSE Times \ {TestTimes})
    /\ pc = "loop"
    /\ iteration = 0
    /\ out = matrix
    /\ states = <<>>
    /\ found = <<>>
    /\ index = <<>>
    /\ result = <<>>
    /\ simulated = 0
    /\ total_load = <<>>
    /\ prev = matrix
    /\ last_op = <<"none">>
    /\ base = matrix
    /\ turns = 0

(***************************************************************************)
(* One pass of cycle's for loop whose new state is not in the history.     *)
(***************************************************************************)
CyclePush ==
    /\ pc = "loop"
    /\ iteration < times
    /\ \E new \in {spin_cycle(out)} :
           /\ position(states, new) = <<>>
           /\ out' = new
           /\ states' = Append(states, new)
    /\ iteration' = iteration + 1
    /\ simulated' = simulated + 1
    /\ UNCHANGED <<matrix, times, pc, found, index, result, total_load>>
    /\ UNCHANGED ops_vars

(***************************************************************************)
(* One pass whose new state is in the history at index i, and the index    *)
(* computed from it is one of the history: that state is returned.         *)
(***************************************************************************)
CycleReturnRecorded ==
    /\ pc = "loop"
    /\ iteration < times
    /\ \E new \in {spin_cycle(out)} : \E pos \in {position(states, new)} :
           /\ pos # <<>>
           /\ period(Len(states), pos[1]) # 0
           /\ LET idx == return_index(pos[1], times, iteration, Len(states))
              IN  /\ idx >= 0
                  /\ idx < Len(states)
                  /\ index' = <<idx>>
                  /\ result' = <<states[idx + 1]>>
           /\ out' = new
           /\ found' = pos
    /\ simulated' = simulated + 1
    /\ pc' = "returned"
    /\ UNCHANGED <<matrix, times, iteration, states, total_load>>
    /\ UNCHANGED ops_vars

(***************************************************************************)
(* One pass whose new state is in the history, and line 152 panics: the    *)
(* divisor is 0, the subtraction goes below 0 (an overflow panic in a      *)
(* debug build, a wrap to usize::MAX and then an index out of bounds in a  *)
(* release build), or the index is not one of the history.                 *)
(***************************************************************************)
CyclePanic ==
    /\ pc = "loop"
    /\ iteration < times
    /\ \E new \in {spin_cycle(out)} : \E pos \in {position(states, new)} :
           /\ pos # <<>>
           /\ \/ /\ period(Len(states), pos[1]) = 0
                 /\ index' = <<>>
              \/ /\ period(Len(states), pos[1]) # 0
                 /\ LET idx == return_index(pos[1], times, iteration, Len(states))
                    IN  /\ (idx < 0 \/ idx >= Len(states))
                        /\ index' = <<idx>>
           /\ out' = new
           /\ found' = pos
    /\ simulated' = simulated + 1
    /\ pc' = "panicked"
    /\ UNCHANGED <<matrix, times, iteration, states, result, total_load>>
    /\ UNCHANGED ops_vars

(***************************************************************************)
(* The loop is over without a repetition: cycle returns out.               *)
(***************************************************************************)
CycleExit ==
    /\ pc = "loop"
    /\ iteration >= times
    /\ result' = <<out>>
    /\ pc' = "returned"
    /\ UNCHANGED <<matrix, times, iteration, out, states, found, index, simulated, total_load>>
    /\ UNCHANGED ops_vars

(***************************************************************************)
(* main prints the load of the platform cycle returned.                    *)
(***************************************************************************)
PrintLoad ==
    /\ pc = "returned"
    /\ total_load' = <<get_load(result[1])>>
    /\ pc' = "printed"
    /\ UNCHANGED <<matrix, times, iteration, out, states, found, index, result, simulated>>
    /\ UNCHANGED ops_vars

Next == CyclePush \/ CycleReturnRecorded \/ CyclePanic \/ CycleExit \/ PrintLoad

Spec == Init /\ [][Next]_vars

(***************************************************************************)
(* Single operations on a platform, as the tests apply them: starting from *)
(* any generated platform, tilts in any direction and rotations by any     *)
(* number of quarter turns, each on the platform the last one returned.    *)
(***************************************************************************)
InitOps ==
    /\ matrix \in Grids
    /\ times = 0
    /\ pc = "ops"
    /\ iteration = 0
    /\ out = <<>>
    /\ states = <<>>
    /\ found = <<>>
    /\ index = <<>>
    /\ result = <<>>
    /\ simulated = 0
    /\ total_load = <<>>
    /\ prev = matrix
    /\ last_op = <<"none">>
    /\ base = matrix
    /\ turns = 0

\* stepped_platform = test_platform.tilt(&direction)
Tilt(direction) ==
    /\ pc = "ops"
    /\ \E tilted \in {tilt(matrix, direction)} :
           /\ matrix' = tilted
           /\ base' = tilted
    /\ prev' = matrix
    /\ last_op' = <<"tilt", direction>>
    /\ turns' = 0
    /\ UNCHANGED <<pc, out>>
    /\ UNCHANGED cycle_vars

\* TiltingPlatform::rotate_matrix(&matrix, k)
Rotate(k) ==
    /\ pc = "ops"
    /\ turns + k <= MaxTurns
    /\ matrix' = rotate_matrix(matrix, k)
    /\ prev' = matrix
    /\ last_op' = <<"rotate", k>>
    /\ turns' = turns + k
    /\ UNCHANGED <<pc, out, base>>
    /\ UNCHANGED cycle_vars

TiltAny == \E direction \in Direction : Tilt(direction)
RotateAny == \E k \in 0..MaxTurns : Rotate(k)

NextOps == TiltAny \/ RotateAny

SpecOps == InitOps /\ [][NextOps]_vars

(***************************************************************************)
(* Properties of cycle and get_load, stated for Spec.                      *)
(***************************************************************************)
Returned == pc \in {"returned", "printed"}
Ended == pc \in {"returned", "printed", "panicked"}

\* the numbers of Empty, RoundStone and SquareStone cells of a platform
CellCounts(m) == [space \in TPSpace |-> CountAll(m, space)]

\* the number, from 1, of the first spin cycle of `start` whose result equals the
\* result of an earlier one, looked for among the first `limit`; `limit` when none
RECURSIVE FirstRepeat(_, _, _, _)
FirstRepeat(seen, current, done, limit) ==
    IF done >= limit THEN limit
    ELSE CHOOSE k \in
            {IF next \in seen THEN done + 1
             ELSE FirstRepeat(seen \cup {next}, next, done + 1, limit) :
                next \in {spin_cycle(current)}} : TRUE

Min(a, b) == IF a <= b THEN a ELSE b
Max(a, b) == IF a >= b THEN a ELSE b

\* C1: cycle(g, n) returns the platform n spin cycles applied one by one give
\* (cycle_brute_force), n = 0 and every n past the first repetition included.
\* The reference is computed for the n up to the tests' 100.
C1_CycleIsBruteForce ==
    (Ended /\ times <= TestTimes) =>
        /\ result # <<>>
        /\ result[1] = cycle_brute_force(matrix, times)

\* C2: cycle has no error outcome: it always returns a platform, and on a match
\* the index read from the history is at least 0 and less than states.len().
C2_CycleNeverPanics ==
    /\ pc # "panicked"
    /\ found # <<>> =>
          /\ index # <<>>
          /\ index[1] >= 0
          /\ index[1] < Len(states)

\* C3: on a match at index i the divisor states.len() - i is at least 1, and it
\* is 1 exactly when the new state is the last one recorded; the loop never
\* runs more than `times` passes.
C3_PeriodAtLeastOne ==
    /\ iteration <= times
    /\ simulated <= times
    /\ found # <<>> =>
          /\ found[1] >= 0
          /\ period(Len(states), found[1]) >= 1
          /\ (out = states[Len(states)]) <=> (period(Len(states), found[1]) = 1)

C3_Witness ==
    /\ found # <<>>
    /\ out = states[Len(states)]
    /\ period(Len(states), found[1]) = 1
    /\ Len(states) >= 2

\* C5: for the example platform of the specification the load printed after
\* 1, 2, 3 and 1000000000 cycles is 87, 69, 69 and 64.
C5_ExampleLoads ==
    (pc = "printed" /\ matrix = Example) =>
        /\ times = 1 => total_load = <<87>>
        /\ times = 2 => total_load = <<69>>
        /\ times = 3 => total_load = <<69>>
        /\ times = MainTimes => total_load = <<64>>

C5_Witness ==
    /\ pc = "printed"
    /\ matrix = Example
    /\ times = MainTimes
    /\ found # <<>>
    /\ total_load = <<64>>

\* C6: tilting in any direction and cycling any number of times keep the numbers
\* of Empty, RoundStone and SquareStone cells of the platform.
C6_CellCountsKept ==
    /\ CellCounts(out) = CellCounts(matrix)
    /\ \A k \in 1..Len(states) : CellCounts(states[k]) = CellCounts(matrix)
    /\ result # <<>> => CellCounts(result[1]) = CellCounts(matrix)
    /\ pc = "loop" => \A d \in Direction : CellCounts(tilt(out, d)) = CellCounts(out)

C6_Witness ==
    /\ Returned
    /\ found # <<>>
    /\ result[1] # matrix
    /\ CountAll(matrix, RoundStone) >= 2
    /\ CountAll(matrix, SquareStone) >= 1
    /\ tilt(matrix, South) # matrix

\* the load as the sum, over the rolling stones, of the number of rows from the
\* stone's row to the bottom row
RECURSIVE SumWeights(_, _)
SumWeights(cells, rows) ==
    IF cells = {} THEN 0
    ELSE LET cell == CHOOSE c \in cells : TRUE
         IN  (rows - (cell[1] - 1)) + SumWeights(cells \ {cell}, rows)

RoundCells(m) ==
    {c \in (1..Len(m)) \X (1..Len(m[1])) : m[c[1]][c[2]] = RoundStone}

\* C8: get_load is the sum over the rows of (rolling stones of the row) x
\* (number of rows - index of the row from the top, from 0): the top row weighs
\* the number of rows, the bottom row 1, other cells nothing.
C8_LoadIsWeightedSum ==
    pc = "printed" =>
        total_load = <<SumWeights(RoundCells(result[1]), Len(result[1]))>>

C8_Witness ==
    /\ pc = "printed"
    /\ Len(result[1]) = 3
    /\ CountIn(result[1][1], RoundStone) = 2
    /\ CountIn(result[1][2], SquareStone) = 1
    /\ CountIn(result[1][3], RoundStone) = 1
    /\ total_load = <<7>>

\* C10: at the head of the loop the history holds pairwise distinct platforms,
\* states[j] (from 0) the platform after j + 1 spin cycles, as many as passes
\* made; cycle ends having run min(n, k) spin cycles, k the number of the first
\* spin cycle whose result repeats an earlier one, and none after a match.
C10_StopsAtFirstRepetition ==
    /\ pc = "loop" =>
          /\ Len(states) = iteration
          /\ simulated = iteration
          /\ found = <<>>
          /\ \A j \in 1..Len(states) :
                states[j] = spin_cycle(IF j = 1 THEN matrix ELSE states[j - 1])
          /\ states # <<>> =>
                states[Len(states)] = cycle_brute_force(matrix, Len(states))
          /\ \A j, k \in 1..Len(states) : states[j] = states[k] => j = k
    /\ pc \in {"returned", "panicked"} =>
          simulated = Min(times, FirstRepeat({}, matrix, 0, times))
    /\ found # <<>> => (Ended /\ simulated = iteration + 1)

C10_Witness ==
    /\ Ended
    /\ found # <<>>
    /\ found[1] >= 1
    /\ period(Len(states), found[1]) >= 2
    /\ simulated < times

(***************************************************************************)
(* Properties of tilt and rotate_matrix, stated for SpecOps.                *)
(***************************************************************************)
Cells(m) == (1..Len(m)) \X (1..Len(m[1]))

\* one step toward the edge the direction names, as <<rows, columns>>
Toward(direction) ==
    CASE direction = North -> <<-1, 0>>
      [] direction = South -> <<1, 0>>
      [] direction = West -> <<0, -1>>
      [] direction = East -> <<0, 1>>

\* p and q lie on one line parallel to the movement axis
SameLine(p, q, direction) ==
    IF direction \in {North, South} THEN p[2] = q[2] ELSE p[1] = q[1]

Between(p, q, c) ==
    /\ Min(p[1], q[1]) <= c[1] /\ c[1] <= Max(p[1], q[1])
    /\ Min(p[2], q[2]) <= c[2] /\ c[2] <= Max(p[2], q[2])

\* the cells of p's line that no fixed stone separates from p
Segment(m, p, direction) ==
    {q \in Cells(m) :
        /\ SameLine(p, q, direction)
        /\ \A c \in Cells(m) : Between(p, q, c) => m[c[1]][c[2]] # SquareStone}

TiltContract(old, new, direction) ==
    /\ Len(new) = Len(old)
    /\ \A r \in 1..Len(old) : Len(new[r]) = Len(old[r])
    /\ \A p \in Cells(old) : (new[p[1]][p[2]] = SquareStone) <=> (old[p[1]][p[2]] = SquareStone)
    /\ \A p \in Cells(old) :
          old[p[1]][p[2]] # SquareStone =>
              Cardinality({q \in Segment(old, p, direction) : new[q[1]][q[2]] = RoundStone})
                = Cardinality({q \in Segment(old, p, direction) : old[q[1]][q[2]] = RoundStone})
    /\ \A p \in Cells(old) :
          new[p[1]][p[2]] = RoundStone =>
              LET q == <<p[1] + Toward(direction)[1], p[2] + Toward(direction)[2]>>
              IN  q \in Cells(old) => new[q[1]][q[2]] # Empty

\* C4: tilt keeps the dimensions and the fixed stones, and in every segment of a
\* line along the movement axis between fixed stones or the boundary it keeps
\* the number of rolling stones and packs them at the end nearest the named
\* edge; tilted West, the row ..#..O.. becomes ..#O....
C4_TiltPacksSegments ==
    /\ last_op[1] = "tilt" => TiltContract(prev, matrix, last_op[2])
    /\ tilt(parse(<< <<".", ".", "#", ".", ".", "O", ".", ".">> >>), West)
         = parse(<< <<".", ".", "#", "O", ".", ".", ".", ".">> >>)

C4_Witness ==
    /\ last_op = <<"tilt", North>>
    /\ Len(matrix) = 3
    /\ prev[3][1] = RoundStone /\ prev[2][1] = SquareStone /\ matrix[3][1] = RoundStone
    /\ prev[3][2] = RoundStone /\ prev[2][2] = Empty /\ prev[1][2] = Empty
    /\ matrix[1][2] = RoundStone

\* C7: a platform tilted in a direction is a fixed point of tilting in that
\* direction.
C7_TiltIsStable ==
    last_op[1] = "tilt" => tilt(matrix, last_op[2]) = matrix

C7_Witness ==
    /\ last_op = <<"tilt", South>>
    /\ prev # matrix
    /\ CountAll(matrix, SquareStone) = 1
    /\ CountAll(matrix, RoundStone) = 3
    /\ tilt(matrix, South) = matrix

\* C9: rotations compose: a sequence of rotate_matrix calls gives what one call
\* with the sum of their arguments gives, on square and non-square platforms;
\* a total of 0 or of a multiple of 4 quarter turns gives the platform back.
C9_RotationComposes ==
    last_op[1] = "rotate" =>
        /\ matrix = rotate_matrix(base, turns)
        /\ matrix = rotate_matrix(base, turns % 4)
        /\ turns % 4 = 0 => matrix = base
        /\ last_op[2] = 0 => matrix = prev

C9_Witness ==
    /\ last_op = <<"rotate", 3>>
    /\ turns = 4
    /\ Len(base) = 2 /\ Len(base[1]) = 3
    /\ Len(prev) = 3 /\ Len(prev[1]) = 2
    /\ base[1][1] = RoundStone /\ base[2][3] = SquareStone
    /\ matrix = base

====
